---- MODULE Spec2Model ----
(***************************************************************************)
(* shproto: a byte-stuffed, CRC-16 protected framing protocol.             *)
(* ShprotoPacket is the frame builder, ShprotoParser the one-byte-at-a-    *)
(* time stream parser (src/src/lib.rs).                                    *)
(***************************************************************************)
EXTENDS Integers, Sequences, FiniteSets, TLC

VARIABLES
    N,        \* the const generic capacity of the packets of this run
    bpc,      \* where the builder's caller is: "new", "started", "sealed", "panicked"
    bpkt,     \* the builder's ShprotoPacket
    bargs,    \* the bytes given to start/add_byte of bpkt so far, in order
    bret,     \* what the last builder call returned: "none", "Ok", "Err"
    sealed,   \* the packets sealed so far with the bytes they were given
    wire,     \* bytes of sealed packets not yet fed to the parser
    state,    \* ShprotoParser.state
    packet,   \* ShprotoParser.packet
    fed,      \* every byte given to parse_byte so far, in order
    sts,      \* ShprotoParser.state on entry to each parse_byte call, in order
    rets      \* what each parse_byte call returned, in order

vars == <<N, bpc, bpkt, bargs, bret, sealed, wire, state, packet, fed, sts, rets>>

bvars == <<bpc, bpkt, bargs, bret, sealed, wire>>
pvars == <<state, packet, fed, sts, rets>>

----------------------------------------------------------------------------
(* Bounds of the model *)

BuildCap == 8        \* capacity of the builder-only runs (overflow reachable)
ParseCap == 5        \* capacity of the parser-only runs (overflow reachable)
TripCap == 14        \* capacity of the builder-to-parser runs (never exceeded)
MaxPayload == 2      \* payload bytes per frame, builder-only runs
MaxTripPayload == 1  \* payload bytes per frame, builder-to-parser runs
MaxFrames == 2       \* frames sealed per builder-to-parser run
MaxFed == 6          \* bytes fed per parser-only run
EchoCap == 12        \* capacity of the byte-by-byte echo runs (never exceeded)
MaxEcho == 1         \* add_byte calls after start per echo run
MaxNoise == 3        \* stream bytes ahead of the frame, noise runs
FillCap == 6         \* capacity of the runs that fill the builder's buffer
MaxFill == 4         \* payload bytes per frame, buffer-filling runs

Byte == 0..255
PayloadBytes == {0, 153, 165, 253, 254}
TripCommands == {3, 254}
TripPayloadBytes == {0, 165}
ParseBytes == {3, 90, 165, 253, 254, 255}
NoiseBytes == {3, 165, 253, 254}
FillBytes == {3, 153, 165, 254}

----------------------------------------------------------------------------
(* u8 / u16 arithmetic *)

RECURSIVE Xor(_, _, _)
Xor(a, b, w) ==
    IF w = 0 THEN 0
    ELSE (((a % 2) + (b % 2)) % 2) + 2 * Xor(a \div 2, b \div 2, w - 1)

\* (!byte) & 0xFF on a u8
Not8(byte) == Xor(byte, 255, 8)

\* high byte first
to_be_bytes(x) == <<x \div 256, x % 256>>

\* u16::to_le_bytes
to_le_bytes(x) == <<x % 256, x \div 256>>

----------------------------------------------------------------------------
(* ControlByte *)

START == 254
ESCAPE == 253
STOP == 165

----------------------------------------------------------------------------
(* ShprotoPacket *)

\* heapless::Vec::push: Err when the vector is full
PushOk(data, cap) == Len(data) < cap

NewPacket ==
    [data |-> <<255, 254>>, crc |-> 65535, completed |-> FALSE, valid |-> FALSE]

RECURSIVE crc16_rounds(_, _)
crc16_rounds(crc, n) ==
    IF n = 0 THEN crc
    ELSE IF crc % 2 # 0
         THEN crc16_rounds(Xor(crc \div 2, 40961, 16), n - 1)
         ELSE crc16_rounds(crc \div 2, n - 1)

crc16(crc, byte) == crc16_rounds(Xor(crc, byte, 16), 8)

\* STOP left out of the escaped values
need_escape_noStop(byte) == byte \in {START, ESCAPE}

need_escape(byte) == byte \in {START, ESCAPE, STOP}

\* add_byte: the packet afterwards and whether Ok(()) was returned.
\* The crc is updated before any push; a failed second push of an escape
\* pair leaves the ESCAPE byte stored.
add_byte(p, byte, cap) ==
    LET q == [p EXCEPT !.crc = crc16(p.crc, byte)] IN
    IF need_escape(byte)
    THEN IF ~PushOk(q.data, cap)
         THEN [p |-> q, ok |-> FALSE]
         ELSE LET r == [q EXCEPT !.data = Append(q.data, ESCAPE)] IN
              IF ~PushOk(r.data, cap)
              THEN [p |-> r, ok |-> FALSE]
              ELSE [p |-> [r EXCEPT !.data = Append(r.data, Not8(byte))],
                    ok |-> TRUE]
    ELSE IF ~PushOk(q.data, cap)
         THEN [p |-> q, ok |-> FALSE]
         ELSE [p |-> [q EXCEPT !.data = Append(q.data, byte)], ok |-> TRUE]

start(p, command, cap) == add_byte(p, command, cap)

\* valid set, completed forgotten
complete_unmarked(p, cap) ==
    LET bytes == <<p.crc % 256, p.crc \div 256>>
        a1 == add_byte(p, bytes[1], cap)
        a2 == add_byte(a1.p, bytes[2], cap)
    IN  IF ~a1.ok THEN [p |-> a1.p, panicked |-> TRUE]
        ELSE IF ~a2.ok THEN [p |-> a2.p, panicked |-> TRUE]
        ELSE IF ~PushOk(a2.p.data, cap) THEN [p |-> a2.p, panicked |-> TRUE]
        ELSE LET s == [a2.p EXCEPT !.data = Append(a2.p.data, STOP)]
             IN  [p |-> IF s.crc = 0 THEN [s EXCEPT !.valid = TRUE] ELSE s,
                  panicked |-> FALSE]

\* complete: the two bytes of the crc as it was on entry go through add_byte,
\* then STOP is pushed raw; every unwrap() that meets an Err panics and
\* leaves the packet as it was at that point.
complete(p, cap) ==
    LET bytes == to_le_bytes(p.crc)
        a1 == add_byte(p, bytes[1], cap)
        a2 == add_byte(a1.p, bytes[2], cap)
    IN  IF ~a1.ok THEN [p |-> a1.p, panicked |-> TRUE]
        ELSE IF ~a2.ok THEN [p |-> a2.p, panicked |-> TRUE]
        ELSE IF ~PushOk(a2.p.data, cap) THEN [p |-> a2.p, panicked |-> TRUE]
        ELSE LET s == [a2.p EXCEPT !.data = Append(a2.p.data, STOP),
                                   !.completed = TRUE]
             IN  [p |-> IF s.crc = 0 THEN [s EXCEPT !.valid = TRUE] ELSE s,
                  panicked |-> FALSE]

----------------------------------------------------------------------------
(* ShprotoParser *)

ParserStates == {"Start", "Data", "EscapedData", "CrcLow", "CrcHigh", "Stop"}

None == [kind |-> "None"]
Err == [kind |-> "Err"]
Some(f) == [kind |-> "Some", frame |-> f]

\* parse_byte, one operator per arm of `match self.state`: the parser
\* afterwards and the value returned. A failing add_byte returns early through
\* `?`, so the state assignment that follows it is skipped.
\* the START test left out
parse_Start_any(pk, byte) ==
    [state |-> "Data", packet |-> NewPacket, ret |-> None]

parse_Start(pk, byte) ==
    IF byte = START
    THEN [state |-> "Data", packet |-> NewPacket, ret |-> None]
    ELSE [state |-> "Start", packet |-> pk, ret |-> None]

\* START mid-frame keeps what was accumulated
parse_Data_keep(pk, byte, cap) ==
    IF byte = START
    THEN [state |-> "Data", packet |-> pk, ret |-> None]
    ELSE IF byte = ESCAPE
    THEN [state |-> "EscapedData", packet |-> pk, ret |-> None]
    ELSE IF byte = STOP
    THEN [state |-> "CrcLow", packet |-> pk, ret |-> None]
    ELSE LET a == add_byte(pk, byte, cap) IN
         [state |-> "Data", packet |-> a.p, ret |-> IF a.ok THEN None ELSE Err]

parse_Data(pk, byte, cap) ==
    IF byte = START
    THEN [state |-> "Data", packet |-> NewPacket, ret |-> None]
    ELSE IF byte = ESCAPE
    THEN [state |-> "EscapedData", packet |-> pk, ret |-> None]
    ELSE IF byte = STOP
    THEN [state |-> "CrcLow", packet |-> pk, ret |-> None]
    ELSE LET a == add_byte(pk, byte, cap) IN
         [state |-> "Data", packet |-> a.p, ret |-> IF a.ok THEN None ELSE Err]

\* START after ESCAPE taken as the START marker
parse_EscapedData_marker(pk, byte, cap) ==
    LET unescaped_byte == Not8(byte)
        a == add_byte(pk, unescaped_byte, cap)
    IN  IF byte = START
        THEN [state |-> "Data", packet |-> NewPacket, ret |-> None]
        ELSE IF a.ok
        THEN [state |-> "Data", packet |-> a.p, ret |-> None]
        ELSE [state |-> "EscapedData", packet |-> a.p, ret |-> Err]

\* the complement left out
parse_EscapedData_raw(pk, byte, cap) ==
    LET a == add_byte(pk, byte, cap)
    IN  IF a.ok
        THEN [state |-> "Data", packet |-> a.p, ret |-> None]
        ELSE [state |-> "EscapedData", packet |-> a.p, ret |-> Err]

parse_EscapedData(pk, byte, cap) ==
    LET unescaped_byte == Not8(byte)
        a == add_byte(pk, unescaped_byte, cap)
    IN  IF a.ok
        THEN [state |-> "Data", packet |-> a.p, ret |-> None]
        ELSE [state |-> "EscapedData", packet |-> a.p, ret |-> Err]

parse_CrcLow(pk, byte, cap) ==
    LET a == add_byte(pk, byte, cap) IN
    IF a.ok
    THEN [state |-> "CrcHigh", packet |-> a.p, ret |-> None]
    ELSE [state |-> "CrcLow", packet |-> a.p, ret |-> Err]

parse_CrcHigh(pk, byte) ==
    LET completed_packet ==
            [data |-> pk.data, crc |-> pk.crc,
             completed |-> TRUE, valid |-> (pk.crc = 0)]
    IN  [state |-> "Start", packet |-> NewPacket, ret |-> Some(completed_packet)]

parse_Stop(pk, byte) ==
    [state |-> "Stop", packet |-> pk, ret |-> None]

parse_byte(st, pk, byte, cap) ==
    CASE st = "Start" -> parse_Start(pk, byte)
      [] st = "Data" -> parse_Data(pk, byte, cap)
      [] st = "EscapedData" -> parse_EscapedData(pk, byte, cap)
      [] st = "CrcLow" -> parse_CrcLow(pk, byte, cap)
      [] st = "CrcHigh" -> parse_CrcHigh(pk, byte)
      [] st = "Stop" -> parse_Stop(pk, byte)

----------------------------------------------------------------------------
(* Operations *)

\* ShprotoParser::new
ParserNew ==
    /\ state = "Start"
    /\ packet = NewPacket
    /\ fed = <<>>
    /\ sts = <<>>
    /\ rets = <<>>

\* ShprotoPacket::new by the builder's caller
BuilderNew ==
    /\ bpc = "new"
    /\ bpkt = NewPacket
    /\ bargs = <<>>
    /\ bret = "none"
    /\ sealed = <<>>
    /\ wire = <<>>

\* one call of parser.parse_byte(byte)
ParseStep(byte) ==
    LET r == parse_byte(state, packet, byte, N) IN
    /\ state' = r.state
    /\ packet' = r.packet
    /\ fed' = Append(fed, byte)
    /\ sts' = Append(sts, state)
    /\ rets' = Append(rets, r.ret)

\* packet.start(command)
BStart(command) ==
    /\ bpc = "new"
    /\ LET a == start(bpkt, command, N) IN
       /\ bpkt' = a.p
       /\ bret' = IF a.ok THEN "Ok" ELSE "Err"
    /\ bargs' = Append(bargs, command)
    /\ bpc' = "started"
    /\ UNCHANGED <<N, sealed, wire, pvars>>

\* packet.add_byte(byte)
BAddByte(byte, maxPayload) ==
    /\ bpc = "started"
    /\ Len(bargs) < 1 + maxPayload
    /\ LET a == add_byte(bpkt, byte, N) IN
       /\ bpkt' = a.p
       /\ bret' = IF a.ok THEN "Ok" ELSE "Err"
    /\ bargs' = Append(bargs, byte)
    /\ UNCHANGED <<N, bpc, sealed, wire, pvars>>

\* packet.complete(); a sealed packet's bytes go out on the wire
BComplete ==
    /\ bpc = "started"
    /\ LET c == complete(bpkt, N) IN
       /\ bpkt' = c.p
       /\ IF c.panicked
          THEN /\ bpc' = "panicked"
               /\ UNCHANGED <<sealed, wire>>
          ELSE /\ bpc' = "sealed"
               /\ sealed' = Append(sealed, [packet |-> c.p, args |-> bargs])
               /\ wire' = wire \o c.p.data
    /\ bret' = "none"
    /\ UNCHANGED <<N, bargs, pvars>>

\* the caller constructs the next packet
BNew ==
    /\ bpc = "sealed"
    /\ Len(sealed) < MaxFrames
    /\ bpkt' = NewPacket
    /\ bargs' = <<>>
    /\ bret' = "none"
    /\ bpc' = "new"
    /\ UNCHANGED <<N, sealed, wire, pvars>>

\* the transport hands the next wire byte to parse_byte
Feed ==
    /\ wire # <<>>
    /\ ParseStep(Head(wire))
    /\ wire' = Tail(wire)
    /\ UNCHANGED <<N, bpc, bpkt, bargs, bret, sealed>>

\* parse_byte on an arbitrary stream byte
ParseByte(byte) ==
    /\ Len(fed) < MaxFed
    /\ ParseStep(byte)
    /\ UNCHANGED <<N, bvars>>

\* packet.start(byte) or packet.add_byte(byte), the bytes it stored going out
\* on the wire at once
ESend(byte) ==
    /\ bpc \in {"new", "started"}
    /\ Len(bargs) < 1 + MaxEcho
    /\ LET a == add_byte(bpkt, byte, N) IN
       /\ bpkt' = a.p
       /\ bret' = IF a.ok THEN "Ok" ELSE "Err"
       /\ wire' = wire \o SubSeq(a.p.data, Len(bpkt.data) + 1, Len(a.p.data))
    /\ bargs' = Append(bargs, byte)
    /\ bpc' = "started"
    /\ UNCHANGED <<N, sealed, pvars>>

\* parse_byte on a stream byte that arrives ahead of the builder's frame
Noise(byte) ==
    /\ sealed = <<>>
    /\ Len(fed) < MaxNoise
    /\ ParseStep(byte)
    /\ UNCHANGED <<N, bvars>>

----------------------------------------------------------------------------
(* Specifications *)

\* the builder alone
InitBuild == N = BuildCap /\ BuilderNew /\ ParserNew
NextBuild ==
    \/ \E c \in Byte : BStart(c)
    \/ \E b \in PayloadBytes : BAddByte(b, MaxPayload)
    \/ BComplete
SpecBuild == InitBuild /\ [][NextBuild]_vars

\* the parser alone, on arbitrary streams
InitParse == N = ParseCap /\ BuilderNew /\ ParserNew
NextParse == \E b \in ParseBytes : ParseByte(b)
SpecParse == InitParse /\ [][NextParse]_vars

\* builder, wire and parser
InitTrip == N = TripCap /\ BuilderNew /\ ParserNew
NextTrip ==
    \/ \E c \in TripCommands : BStart(c)
    \/ \E b \in TripPayloadBytes : BAddByte(b, MaxTripPayload)
    \/ BComplete
    \/ BNew
    \/ Feed
SpecTrip == InitTrip /\ [][NextTrip]_vars

\* the builder's bytes reach the parser as they are stored, the two preamble
\* bytes of new() first
InitEcho ==
    /\ N = EchoCap
    /\ bpc = "new"
    /\ bpkt = NewPacket
    /\ bargs = <<>>
    /\ bret = "none"
    /\ sealed = <<>>
    /\ wire = NewPacket.data
    /\ ParserNew
NextEcho ==
    \/ \E c \in Byte : bpc = "new" /\ ESend(c)
    \/ \E b \in PayloadBytes : bpc = "started" /\ ESend(b)
    \/ Feed
SpecEcho == InitEcho /\ [][NextEcho]_vars

\* arbitrary stream bytes, then the wire bytes of one sealed frame
InitNoise == N = TripCap /\ BuilderNew /\ ParserNew
NextNoise ==
    \/ \E b \in NoiseBytes : Noise(b)
    \/ \E c \in TripCommands : BStart(c)
    \/ \E b \in TripPayloadBytes : BAddByte(b, MaxTripPayload)
    \/ BComplete
    \/ Feed
SpecNoise == InitNoise /\ [][NextNoise]_vars

\* the builder alone, given more bytes than its buffer holds
InitFill == N = FillCap /\ BuilderNew /\ ParserNew
NextFill ==
    \/ \E c \in FillBytes : BStart(c)
    \/ \E b \in FillBytes : BAddByte(b, MaxFill)
    \/ BComplete
SpecFill == InitFill /\ [][NextFill]_vars

----------------------------------------------------------------------------
(* Helpers of the properties *)

\* the indices of the parse_byte calls that returned a frame, in order
SomeIdx == {i \in 1..Len(rets) : rets[i].kind = "Some"}

\* every packet in existence: the builder's, the sealed ones, the parser's
\* in-progress one and every frame parse_byte returned
AllPackets ==
    {bpkt, packet}
        \cup {sealed[i].packet : i \in 1..Len(sealed)}
        \cup {rets[i].frame : i \in SomeIdx}

\* the largest member of a non-empty set of numbers
Max(S) == CHOOSE x \in S : \A y \in S : y <= x

\* the logical bytes of a span of wire bytes: ESCAPE x stands for the
\* complement of x, every other byte for itself
RECURSIVE Unescape(_)
Unescape(s) ==
    IF s = <<>> THEN <<>>
    ELSE IF Head(s) = ESCAPE
         THEN IF Len(s) = 1 THEN <<>>
              ELSE <<Not8(s[2])>> \o Unescape(SubSeq(s, 3, Len(s)))
         ELSE <<Head(s)>> \o Unescape(Tail(s))

\* the CRC-16 folded over a sequence of bytes from the seed 0xFFFF
RECURSIVE CrcFold(_, _)
CrcFold(crc, s) ==
    IF s = <<>> THEN crc ELSE CrcFold(crc16(crc, Head(s)), Tail(s))

CrcOver(s) == CrcFold(65535, s)

\* the bytes of a data buffer between the two preamble bytes and the raw
\* STOP (a stored 0xA5 is always the raw marker: add_byte escapes the others)
Protected(data) ==
    SubSeq(data, 3, IF data[Len(data)] = STOP THEN Len(data) - 1 ELSE Len(data))

\* the calls that began a frame: START fed in state Start or Data
StartIdx == {k \in 1..Len(fed) : fed[k] = START /\ sts[k] \in {"Start", "Data"}}

\* the calls that ended a frame's protected region: STOP fed in state Data
StopIdx == {j \in 1..Len(fed) : fed[j] = STOP /\ sts[j] = "Data"}

\* the START that opened the frame in progress at call j
OpeningStart(j) == Max({k \in StartIdx : k < j})

\* the STOP that terminated the frame returned by call i
TerminatingStop(i) == Max({j \in StopIdx : j <= i})

\* the wire bytes between the opening START and the terminating STOP of the
\* frame returned by call i
Span(i) ==
    LET j == TerminatingStop(i) IN SubSeq(fed, OpeningStart(j) + 1, j - 1)

\* a fresh parser fed the bytes of s one by one: the result of the last call
RECURSIVE Run(_, _, _, _)
Run(st, pk, s, cap) ==
    LET r == parse_byte(st, pk, Head(s), cap) IN
    IF Len(s) = 1 THEN r ELSE Run(r.state, r.packet, Tail(s), cap)

RunFresh(s, cap) == Run("Start", NewPacket, s, cap)

----------------------------------------------------------------------------
(* C1 *)

\* C1: CRC self-check. After new(), start(command), add_byte per payload byte
\* and one complete() that fit the capacity, the packet's running crc is 0,
\* completed is true and valid is true.
C1_CrcSelfCheck ==
    bpc = "sealed" => (bpkt.crc = 0 /\ bpkt.completed /\ bpkt.valid)

\* the packet of the crate's test (command 0x03, payload 0x99) sealed, and
\* a packet holding escaped bytes sealed
C1_Witness ==
    /\ bpc = "sealed"
    /\ bargs \in {<<3, 153>>, <<254, 165>>}
    /\ bpkt.crc = 0

----------------------------------------------------------------------------
(* C2 *)

\* C2: builder-to-parser round trip. Once the wire bytes of a sealed frame
\* have been fed, one per call, to a fresh parser, exactly one call has
\* returned a frame, and that frame has valid = true and crc = 0.
C2_RoundTrip ==
    (Len(sealed) >= 1 /\ Len(fed) = Len(sealed[1].packet.data)) =>
        /\ Cardinality(SomeIdx) = 1
        /\ \A i \in SomeIdx : rets[i].frame.valid /\ rets[i].frame.crc = 0

----------------------------------------------------------------------------
(* C3 *)

\* frame f carries the content of the sealed packet s: the same logical
\* protected bytes (command, payload, CRC bytes)
Carries(f, s) ==
    Unescape(Protected(f.data)) = Unescape(Protected(s.packet.data))

\* C3: order preservation. Once the wire bytes of F1 immediately followed by
\* those of F2 have been fed to a fresh parser, exactly two calls have returned
\* a frame, the first carrying F1's content and the second F2's, and F1 was
\* returned before any byte of F2's protected region was fed.
C3_OrderPreservation ==
    (Len(sealed) = 2 /\ wire = <<>>) =>
        \E i1, i2 \in SomeIdx :
            /\ i1 < i2
            /\ SomeIdx = {i1, i2}
            /\ i1 <= Len(sealed[1].packet.data) + 2
            /\ Carries(rets[i1].frame, sealed[1])
            /\ Carries(rets[i2].frame, sealed[2])

----------------------------------------------------------------------------
(* C4 *)

\* C4: validity of a parsed frame. Every returned frame has valid = true iff
\* the CRC-16 folded over the unescaped bytes between its opening START and
\* its terminating STOP is zero; and no START..STOP span is suppressed: once
\* the parser has gone on to state Start or Data after a STOP, a frame was
\* returned for that STOP.
C4_Validity ==
    /\ \A i \in SomeIdx :
          rets[i].frame.valid <=> (CrcOver(Unescape(Span(i))) = 0)
    /\ \A j \in StopIdx :
          (\E k \in (j + 1)..Len(sts) : sts[k] \in {"Start", "Data"})
              => \E i \in SomeIdx : TerminatingStop(i) = j

----------------------------------------------------------------------------
(* C5 *)

\* C5: content of a parsed frame. The bytes of every returned frame are the
\* protected region in unescaped form: the logical bytes between the opening
\* START and the terminating STOP, with no marker, no ESCAPE byte and no byte
\* that arrived after STOP.
C5_FrameContent ==
    \A i \in SomeIdx : rets[i].frame.data = Unescape(Span(i))

----------------------------------------------------------------------------
(* C6 *)

\* C6: once a fresh parser has been fed the complete wire bytes of a sealed
\* frame, it has returned a frame with crc = 0 whose data buffer equals the
\* builder's data buffer (sync, START, protected bytes as on the wire, STOP).
C6_ParsedDataIsWire ==
    (Len(sealed) >= 1 /\ Len(fed) >= Len(sealed[1].packet.data)) =>
        \E i \in SomeIdx :
            /\ i <= Len(sealed[1].packet.data)
            /\ rets[i].frame.crc = 0
            /\ rets[i].frame.data = sealed[1].packet.data

----------------------------------------------------------------------------
(* C7 *)

\* C7: no frame without START. While no START byte has been fed to a fresh
\* parser, every parse_byte call has returned no frame, the parser is in
\* state Start and its in-progress packet is as constructed.
C7_NoFrameWithoutStart ==
    (\A i \in 1..Len(fed) : fed[i] # START) =>
        /\ state = "Start"
        /\ packet = NewPacket
        /\ \A i \in 1..Len(rets) : rets[i] = None

\* a START-free stream holding STOP, ESCAPE and a data byte
C7_Witness ==
    /\ Len(fed) >= 4
    /\ \A i \in 1..Len(fed) : fed[i] # START
    /\ \E i, j, k \in 1..Len(fed) : fed[i] = STOP /\ fed[j] = ESCAPE /\ fed[k] = 3

----------------------------------------------------------------------------
(* C8 *)

\* every returned frame is the one a fresh parser returns when fed only the
\* bytes from the frame's opening START on: nothing accumulated before that
\* START is in it
C8_NothingFromBefore ==
    \A i \in SomeIdx :
        rets[i] = RunFresh(SubSeq(fed, OpeningStart(i), i), N).ret

\* C8: spurious START mid-frame. A parse_byte(START) call in state Data
\* returns no frame, makes the in-progress packet a fresh one (crc 0xFFFF, no
\* protected bytes) and leaves the state Data; and the partial frame
\* accumulated before it is in no frame returned later.
C8_SpuriousStart ==
    /\ [][(state = "Data" /\ fed' = Append(fed, START)) =>
            (/\ rets' = Append(rets, None)
             /\ packet' = NewPacket
             /\ packet'.crc = 65535
             /\ state' = "Data")]_vars
    /\ []C8_NothingFromBefore

\* a START fed in state Data after a byte was accumulated, and a frame
\* returned afterwards
C8_Witness ==
    \E j \in 2..Len(fed) :
        /\ sts[j] = "Data" /\ fed[j] = START
        /\ sts[j - 1] = "Data" /\ fed[j - 1] = 3
        /\ \E i \in SomeIdx : i > j

----------------------------------------------------------------------------
(* C9 *)

\* no call from the opening START of call j up to call j - 1 returned an error
NoErrBefore(j) == \A m \in OpeningStart(j)..(j - 1) : rets[m] # Err

\* call j stores a protected byte
Stores(j) ==
    \/ sts[j] = "EscapedData"
    \/ sts[j] = "Data" /\ fed[j] \notin {START, ESCAPE, STOP}

\* the bytes a sequence of logical bytes takes in the buffer: two per
\* control byte value, one per other byte
RECURSIVE StoredLen(_)
StoredLen(s) ==
    IF s = <<>> THEN 0
    ELSE (IF Head(s) \in {START, ESCAPE, STOP} THEN 2 ELSE 1) + StoredLen(Tail(s))

\* the stored bytes that the frame open at call j requires for the bytes fed
\* up to call m: the two preamble bytes and the protected bytes since its START
RequiredTo(j, m) ==
    2 + StoredLen(Unescape(SubSeq(fed, OpeningStart(j) + 1, m)))

Required(j) == RequiredTo(j, j)

\* C9: capacity boundary. No packet's stored length exceeds N; the call that
\* takes the stored bytes required beyond N returns the capacity error; and a
\* frame whose protected region requires exactly N stored bytes completes
\* without any error: from its STOP up to the call that returns it, no call
\* fails.
C9_CapacityBoundary ==
    /\ \A p \in AllPackets : Len(p.data) <= N
    /\ \A j \in 1..Len(fed) :
          (/\ Stores(j)
           /\ NoErrBefore(j)
           /\ Required(j) > N) => rets[j] = Err
    /\ \A j \in StopIdx :
          (NoErrBefore(j) /\ RequiredTo(j, j - 1) = N) =>
              \A m \in j..Len(rets) :
                  (\A i \in j..(m - 1) : rets[i].kind # "Some") => rets[m] # Err

\* the stored length never exceeds N, and the call that takes the stored
\* bytes required beyond N returns the capacity error
C9_Overflow ==
    /\ \A p \in AllPackets : Len(p.data) <= N
    /\ \A j \in 1..Len(fed) :
          (/\ Stores(j)
           /\ NoErrBefore(j)
           /\ Required(j) > N) => rets[j] = Err

----------------------------------------------------------------------------
(* C10 *)

\* C10: in every reachable state, every packet (the builder's, the parser's
\* in-progress one, every returned frame) with valid = true has
\* completed = true.
C10_ValidImpliesCompleted ==
    \A p \in AllPackets : p.valid => p.completed

\* a valid sealed builder packet exists and the parser has returned a frame
C10_Witness ==
    /\ \E i \in 1..Len(sealed) : sealed[i].packet.valid
    /\ SomeIdx # {}

----------------------------------------------------------------------------
(* C11 *)

\* the wire encoding of a sequence of logical bytes: 0xFE, 0xFD and 0xA5
\* become 0xFD followed by their complement, every other byte stays
RECURSIVE Escape(_)
Escape(s) ==
    IF s = <<>> THEN <<>>
    ELSE (IF Head(s) \in {254, 253, 165}
          THEN <<253, 255 - Head(s)>>
          ELSE <<Head(s)>>) \o Escape(Tail(s))

\* C11: wire format of a sealed builder packet. Its data buffer is 0xFF, 0xFE,
\* then the escaped encoding of the command, the payload bytes, the low and
\* the high byte of the crc as it was just before complete(), then one 0xA5;
\* 0xFE occurs only as the second byte, 0xA5 only as the last, and every 0xFD
\* is followed by 0x01, 0x02 or 0x5A.
C11_WireFormat ==
    bpc = "sealed" =>
        LET crc == CrcOver(bargs)
            d == bpkt.data
        IN  /\ d = <<255, 254>>
                     \o Escape(bargs \o <<crc % 256, crc \div 256>>)
                     \o <<165>>
            /\ \A i \in 1..Len(d) : d[i] = 254 => i = 2
            /\ \A i \in 1..Len(d) : d[i] = 165 => i = Len(d)
            /\ \A i \in 1..Len(d) :
                  d[i] = 253 => (i < Len(d) /\ d[i + 1] \in {1, 2, 90})

\* a sealed packet with an escaped STOP value in its payload
C11_Witness ==
    /\ bpc = "sealed"
    /\ Len(bargs) = 2
    /\ bargs[2] = 165
    /\ \E i \in 1..Len(bpkt.data) : bpkt.data[i] = 253

----------------------------------------------------------------------------
(* C12 *)

\* C12: escape round trip. Once the parser, in state Data, has been fed the
\* wire bytes that add_byte(b) stored for each byte b given to the builder,
\* exactly those logical bytes are folded into its in-progress frame: its crc
\* is the builder's, the CRC-16 of the bytes given, its stored bytes unescape
\* to the bytes given, no call returned a frame or an error, and it is in
\* state Data.
C12_EscapeRoundTrip ==
    (wire = <<>> /\ Len(fed) >= 2) =>
        /\ state = "Data"
        /\ packet.crc = bpkt.crc
        /\ packet.crc = CrcOver(bargs)
        /\ Unescape(Protected(packet.data)) = bargs
        /\ \A i \in 1..Len(rets) : rets[i] = None

\* the escape pairs of 0xA5 and 0xFD delivered
C12_Witness ==
    /\ wire = <<>>
    /\ bargs = <<165, 253>>
    /\ fed = <<255, 254, 253, 90, 253, 2>>

----------------------------------------------------------------------------
(* C13 *)

\* C13: STOP seals immediately. Every parse_byte(STOP) call in state Data
\* returns the completed frame, whose crc covers only the protected bytes
\* consumed before the STOP; after it the parser is in state Start with a
\* fresh in-progress frame; and the parser is never in a state other than
\* Start, Data and EscapedData.
C13_StopSeals ==
    /\ \A j \in StopIdx :
          /\ rets[j].kind = "Some"
          /\ rets[j].frame.crc
                = CrcOver(Unescape(SubSeq(fed, OpeningStart(j) + 1, j - 1)))
    /\ (Len(fed) \in StopIdx) => (state = "Start" /\ packet = NewPacket)
    /\ state \in {"Start", "Data", "EscapedData"}

----------------------------------------------------------------------------
(* C14 *)

\* C14: resynchronization. Whatever bytes were fed before without a capacity
\* error, once the complete wire bytes of a sealed frame W have been fed after
\* them, one of the calls that took W's bytes returned W's frame, with
\* valid = true.
C14_Resync ==
    (/\ Len(sealed) = 1
     /\ wire = <<>>
     /\ \A i \in 1..Len(rets) : rets[i] # Err) =>
        \E i \in SomeIdx :
            /\ i > Len(fed) - Len(sealed[1].packet.data)
            /\ rets[i].frame.valid
            /\ Carries(rets[i].frame, sealed[1])

----------------------------------------------------------------------------
(* C15 *)

\* C15: escaped byte handling. A parse_byte(x) call in state EscapedData,
\* for any x (0xFE, 0xFD and 0xA5 included) whose complement fits the
\* remaining capacity, returns no frame, appends the complement of x to the
\* in-progress frame through the protected-append path (one logical byte more
\* stored, crc updated with the complement) and leaves the state Data.
C15_EscapedByte ==
    [][\A x \in Byte :
          (/\ state = "EscapedData"
           /\ fed' = Append(fed, x)
           /\ Len(packet.data) + StoredLen(<<255 - x>>) <= N) =>
              /\ rets' = Append(rets, None)
              /\ state' = "Data"
              /\ packet'.crc = crc16(packet.crc, 255 - x)
              /\ packet'.data = packet.data \o Escape(<<255 - x>>)
              /\ packet'.completed = packet.completed
              /\ packet'.valid = packet.valid]_vars

\* START and STOP were each fed in state EscapedData and taken as escaped
\* literals
C15_Witness ==
    /\ \E j \in 1..Len(fed) : sts[j] = "EscapedData" /\ fed[j] = 254 /\ rets[j] = None
    /\ \E j \in 1..Len(fed) : sts[j] = "EscapedData" /\ fed[j] = 165 /\ rets[j] = None
    /\ state = "Data"

----------------------------------------------------------------------------
(* C16 *)

\* C16: the running crc tracks the stored bytes. In every state of every
\* packet whose caller is still running, crc is a 16-bit value equal to the
\* CRC-16 (seed 0xFFFF) folded over the logical bytes stored after the two
\* preamble bytes, the raw STOP excluded; and after start(0x03),
\* add_byte(0x99) it is 10945.
C16_CrcTracksStored ==
    /\ \A p \in (IF bpc = "panicked" THEN AllPackets \ {bpkt} ELSE AllPackets) :
          /\ p.crc \in 0..65535
          /\ p.crc = CrcOver(Unescape(Protected(p.data)))
    /\ (bpc = "started" /\ bargs = <<3, 153>>) => bpkt.crc = 10945

----------------------------------------------------------------------------
(* C17 *)

\* C17: a failed append is atomic. A start or add_byte call with byte b
\* returns the capacity error exactly when the wire encoding of b (one byte,
\* two for a control byte value) does not fit the remaining capacity, and
\* then leaves the data buffer and the crc as they were.
C17_FailedAppendAtomic ==
    [][(Len(bargs') = Len(bargs) + 1) =>
          LET b == bargs'[Len(bargs')] IN
          /\ (bret' = "Err") <=> (Len(bpkt.data) + StoredLen(<<b>>) > N)
          /\ (bret' = "Err") => (bpkt'.data = bpkt.data /\ bpkt'.crc = bpkt.crc)]_vars

\* the first half of C17: the error is returned exactly when the encoding of
\* the byte does not fit
C17_ErrorIffNoRoom ==
    [][(Len(bargs') = Len(bargs) + 1) =>
          LET b == bargs'[Len(bargs')] IN
          (bret' = "Err") <=> (Len(bpkt.data) + StoredLen(<<b>>) > N)]_vars

----------------------------------------------------------------------------
(* C18 *)

\* the parser's state on return from call j
StateAfter(j) == IF j < Len(sts) THEN sts[j + 1] ELSE state

\* C18: parser reset on capacity failure. After every parse_byte call that
\* returned the capacity error the parser is in state Start.
C18_ResetOnError ==
    \A j \in 1..Len(rets) : rets[j] = Err => StateAfter(j) = "Start"

----------------------------------------------------------------------------
(* C19 *)

\* C19: capacity overflow while sealing is reported, not fatal: no complete()
\* call aborts the program, whatever room is left for the two CRC bytes and
\* the STOP byte.
C19_SealOverflowReported == bpc # "panicked"

====
